---- MODULE Spec2Model ----
(***************************************************************************)
(* Model of koheesio.spark.readers.databricks.autoloader.AutoLoader.       *)
(*                                                                         *)
(* Python values are records [type, v].  A str is the sequence of its      *)
(* characters; a str whose characters are never inspected by the code is   *)
(* written as a single piece.  A dict is a function from its keys to its   *)
(* values.  Every function that can raise returns [ok, value, error].      *)
(***************************************************************************)
EXTENDS Integers, Sequences, FiniteSets, TLC

\* Bounds of the model.
MaxOps == 2
MaxPathLen == 2

VARIABLES
    args,      \* keyword arguments given to AutoLoader(...)
    fs,        \* the filesystem: existing path -> entry
    pc,        \* "new" (not yet constructed), "constructed", "failed"
    self,      \* the instance's fields, NoInstance until constructed
    output,    \* self.output: [df]
    last,      \* name of the last operation
    raised,    \* error raised by the last operation, NoError if it returned
    ret,       \* value returned by the last operation
    nOps,      \* number of method calls made on the instance
    fsLog,     \* filesystem accesses made, in order
    calls,     \* calls issued on the engine, in order
    merged     \* the mapping returned by each get_options() call, in order

vars == <<args, fs, pc, self, output, last, raised, ret, nOps, fsLog, calls, merged>>

-----------------------------------------------------------------------------
\* Python values

None == [type |-> "NoneType", v |-> <<>>]
Omitted == [type |-> "omitted", v |-> <<>>]
Str(s) == [type |-> "str", v |-> s]
Dict(m) == [type |-> "dict", v |-> m]
PosixPath(s) == [type |-> "PosixPath", v |-> s]
StructType(fields) == [type |-> "StructType", v |-> fields]
DataFrame(id) == [type |-> "DataFrame", v |-> id]

NoError == [type |-> "", msg |-> <<>>]
Error(t, m) == [type |-> t, msg |-> m]
Ok(x) == [ok |-> TRUE, value |-> x, error |-> NoError]
Raise(e) == [ok |-> FALSE, value |-> None, error |-> e]

-----------------------------------------------------------------------------
\* str.upper()

LowerChars == <<"a","b","c","d","e","f","g","h","i","j","k","l","m",
                "n","o","p","q","r","s","t","u","v","w","x","y","z">>
UpperChars == <<"A","B","C","D","E","F","G","H","I","J","K","L","M",
                "N","O","P","Q","R","S","T","U","V","W","X","Y","Z">>

upper_char(c) ==
    IF \E i \in DOMAIN LowerChars : LowerChars[i] = c
    THEN UpperChars[CHOOSE i \in DOMAIN LowerChars : LowerChars[i] = c]
    ELSE c

upper(s) == [i \in 1..Len(s) |-> upper_char(s[i])]

-----------------------------------------------------------------------------
\* class AutoLoaderFormat(Enum): the members in definition order

AutoLoaderFormat == <<
    [name |-> <<"J","S","O","N">>, value |-> <<"j","s","o","n">>],
    [name |-> <<"C","S","V">>, value |-> <<"c","s","v">>],
    [name |-> <<"P","A","R","Q","U","E","T">>,
     value |-> <<"p","a","r","q","u","e","t">>],
    [name |-> <<"A","V","R","O">>, value |-> <<"a","v","r","o">>],
    [name |-> <<"O","R","C">>, value |-> <<"o","r","c">>],
    [name |-> <<"T","E","X","T">>, value |-> <<"t","e","x","t">>],
    [name |-> <<"B","I","N","A","R","Y","F","I","L","E">>,
     value |-> <<"b","i","n","a","r","y","f","i","l","e">>] >>

Member(i) == [type |-> "AutoLoaderFormat", v |-> AutoLoaderFormat[i]]

\* getattr(AutoLoaderFormat, name)
getattr(name) ==
    IF \E i \in DOMAIN AutoLoaderFormat : AutoLoaderFormat[i].name = name
    THEN Ok(Member(CHOOSE i \in DOMAIN AutoLoaderFormat :
                       AutoLoaderFormat[i].name = name))
    ELSE Raise(Error("AttributeError", name))

\* x.value: only enum members have the attribute
value_of(x) ==
    IF x.type = "AutoLoaderFormat"
    THEN Ok(Str(x.v.value))
    ELSE Raise(Error("AttributeError", <<"value">>))

\* Faulty variant: an unmatched str is returned as it is.
validate_format_passthrough(format_specified) ==
    LET matched ==
            /\ format_specified.type = "str"
            /\ \E i \in DOMAIN AutoLoaderFormat :
                   upper(AutoLoaderFormat[i].value) = upper(format_specified.v)
        looked == IF matched THEN getattr(upper(format_specified.v))
                  ELSE Ok(format_specified)
    IN  IF ~looked.ok THEN looked
        ELSE IF looked.value.type = "str" THEN Ok(looked.value)
        ELSE value_of(looked.value)

\* Faulty variant: the given str is compared without upper().
validate_format_case_sensitive(format_specified) ==
    LET matched ==
            /\ format_specified.type = "str"
            /\ \E i \in DOMAIN AutoLoaderFormat :
                   upper(AutoLoaderFormat[i].value) = format_specified.v
        looked == IF matched THEN getattr(upper(format_specified.v))
                  ELSE Ok(format_specified)
    IN  IF ~looked.ok THEN looked ELSE value_of(looked.value)

validate_format(format_specified) ==
    LET matched ==
            /\ format_specified.type = "str"
            /\ \E i \in DOMAIN AutoLoaderFormat :
                   upper(AutoLoaderFormat[i].value) = upper(format_specified.v)
        looked == IF matched THEN getattr(upper(format_specified.v))
                  ELSE Ok(format_specified)
    IN  IF ~looked.ok THEN looked ELSE value_of(looked.value)

-----------------------------------------------------------------------------
\* pathlib.Path(s) on POSIX: empty and "." components are dropped, a leading
\* "/" is the root, exactly two leading slashes are kept as "//".

RECURSIVE components(_, _)
components(s, cur) ==
    LET done == IF cur = <<>> \/ cur = <<".">> THEN <<>> ELSE <<cur>>
    IN  IF s = <<>> THEN done
        ELSE IF Head(s) = "/" THEN done \o components(Tail(s), <<>>)
        ELSE components(Tail(s), Append(cur, Head(s)))

RECURSIVE leading_slashes(_)
leading_slashes(s) ==
    IF s # <<>> /\ Head(s) = "/" THEN 1 + leading_slashes(Tail(s)) ELSE 0

root(s) ==
    LET n == leading_slashes(s)
    IN  IF n = 0 THEN <<>> ELSE IF n = 2 THEN <<"/", "/">> ELSE <<"/">>

RECURSIVE join(_)
join(parts) ==
    IF parts = <<>> THEN <<>>
    ELSE IF Len(parts) = 1 THEN parts[1]
    ELSE parts[1] \o <<"/">> \o join(Tail(parts))

\* Path(x); str(Path(x)) is its v
Path(x) ==
    IF x.type = "PosixPath" THEN x
    ELSE LET p == root(x.v) \o join(components(x.v, <<>>))
         IN  PosixPath(IF p = <<>> THEN <<".">> ELSE p)

\* str(x) as used by the f-string
str(x) == x.v

-----------------------------------------------------------------------------
\* The filesystem collaborator and the deserialisers

Access(op, path) == [op |-> op, path |-> path.v]

exists(path, files) == path.v \in DOMAIN files

read_text(path, files) ==
    IF ~exists(path, files) THEN Raise(Error("FileNotFoundError", path.v))
    ELSE IF files[path.v].kind = "dir"
    THEN Raise(Error("IsADirectoryError", path.v))
    ELSE Ok(files[path.v].text)

\* json.loads(text)
json_loads(text) ==
    IF text.json THEN Ok(text.obj)
    ELSE Raise(Error("JSONDecodeError", <<>>))

\* StructType.fromJson(obj): reads obj["fields"]
StructType_fromJson(obj) ==
    IF "fields" \in DOMAIN obj THEN Ok(StructType(obj["fields"]))
    ELSE Raise(Error("KeyError", <<"fields">>))

NotFoundMessage(s) == <<"Schema file not found at path ">> \o s

Resolved(r, log) == [ok |-> r.ok, value |-> r.value, error |-> r.error, fsops |-> log]

\* Faulty variant: the error message is built from the Path, not from the given value.
validate_schema_path_in_message(schema_specified, files) ==
    LET schema == schema_specified
    IN  IF schema.type = "StructType" THEN Resolved(Ok(schema), <<>>)
        ELSE IF schema.type # "NoneType" THEN
            LET schema_path == Path(schema)
                e == <<Access("exists", schema_path)>>
                r == <<Access("read_text", schema_path)>>
            IN  IF exists(schema_path, files) THEN
                    LET text == read_text(schema_path, files)
                    IN  IF ~text.ok THEN Resolved(text, e \o r)
                        ELSE LET obj == json_loads(text.value)
                             IN  IF ~obj.ok THEN Resolved(obj, e \o r)
                                 ELSE Resolved(StructType_fromJson(obj.value), e \o r)
                ELSE Resolved(Raise(Error("FileNotFoundError",
                                          NotFoundMessage(str(schema_path)))), e)
        ELSE Resolved(Ok(schema), <<>>)

\* Faulty variant: the path is probed before the None test.
validate_schema_probe_first(schema_specified, files) ==
    LET schema == schema_specified
        schema_path == Path(schema)
        e == <<Access("exists", schema_path)>>
        r == <<Access("read_text", schema_path)>>
    IN  IF schema.type = "StructType" THEN Resolved(Ok(schema), <<>>)
        ELSE IF exists(schema_path, files) /\ schema.type # "NoneType" THEN
            LET text == read_text(schema_path, files)
            IN  IF ~text.ok THEN Resolved(text, e \o r)
                ELSE LET obj == json_loads(text.value)
                     IN  IF ~obj.ok THEN Resolved(obj, e \o r)
                         ELSE Resolved(StructType_fromJson(obj.value), e \o r)
        ELSE IF schema.type # "NoneType"
        THEN Resolved(Raise(Error("FileNotFoundError",
                                  NotFoundMessage(str(schema)))), e)
        ELSE Resolved(Ok(schema), e)

validate_schema(schema_specified, files) ==
    LET schema == schema_specified
    IN  IF schema.type = "StructType" THEN Resolved(Ok(schema), <<>>)
        ELSE IF schema.type # "NoneType" THEN
            LET schema_path == Path(schema)
                e == <<Access("exists", schema_path)>>
                r == <<Access("read_text", schema_path)>>
            IN  IF exists(schema_path, files) THEN
                    LET text == read_text(schema_path, files)
                    IN  IF ~text.ok THEN Resolved(text, e \o r)
                        ELSE LET obj == json_loads(text.value)
                             IN  IF ~obj.ok THEN Resolved(obj, e \o r)
                                 ELSE Resolved(StructType_fromJson(obj.value), e \o r)
                ELSE Resolved(Raise(Error("FileNotFoundError",
                                          NotFoundMessage(str(schema)))), e)
        ELSE Resolved(Ok(schema), <<>>)

-----------------------------------------------------------------------------
\* dict.update(other)

update(d, other) ==
    [k \in DOMAIN d \cup DOMAIN other |-> IF k \in DOMAIN other THEN other[k] ELSE d[k]]

GotOptions(ok, s, x, e) == [ok |-> ok, self |-> s, value |-> x, error |-> e]

\* Faulty variant: keys already present are kept (setdefault instead of update).
get_options_keep_caller(s) ==
    IF s.options.type # "dict"
    THEN GotOptions(FALSE, s, None, Error("AttributeError", <<"update">>))
    ELSE LET s2 == [s EXCEPT !.options = Dict(update(
                       ("cloudFiles.format" :> s.format.v) @@
                       ("cloudFiles.schemaLocation" :> s.schema_location.v),
                       s.options.v))]
         IN  GotOptions(TRUE, s2, s2.options, NoError)

\* Faulty variant: the mapping is rebuilt from the two derived options only.
get_options_only_derived(s) ==
    IF s.options.type # "dict"
    THEN GotOptions(FALSE, s, None, Error("AttributeError", <<"update">>))
    ELSE LET s2 == [s EXCEPT !.options = Dict(
                       ("cloudFiles.format" :> s.format.v) @@
                       ("cloudFiles.schemaLocation" :> s.schema_location.v))]
         IN  GotOptions(TRUE, s2, s2.options, NoError)

\* Faulty variant: a merged copy is returned, self.options is left as it was.
get_options_copy(s) ==
    IF s.options.type # "dict"
    THEN GotOptions(FALSE, s, None, Error("AttributeError", <<"update">>))
    ELSE GotOptions(TRUE, s, Dict(update(s.options.v,
                       ("cloudFiles.format" :> s.format.v) @@
                       ("cloudFiles.schemaLocation" :> s.schema_location.v))),
                    NoError)

\* AutoLoader.get_options: returns the instance after the call and the result
get_options(s) ==
    IF s.options.type # "dict"
    THEN GotOptions(FALSE, s, None, Error("AttributeError", <<"update">>))
    ELSE LET s2 == [s EXCEPT !.options = Dict(update(s.options.v,
                       ("cloudFiles.format" :> s.format.v) @@
                       ("cloudFiles.schemaLocation" :> s.schema_location.v)))]
         IN  GotOptions(TRUE, s2, s2.options, NoError)

-----------------------------------------------------------------------------
\* The engine collaborator: a builder whose every call may raise.

FailPoints == {"none", "format", "schema", "options", "load"}
EngineError == Error("EngineError", <<>>)

Call(name, arg, fails, result) ==
    [call |-> name, arg |-> arg, raised |-> fails, result |-> result]

Request(source, schema, options) ==
    [type |-> "DataStreamReader",
     v |-> [source |-> source, schema |-> schema, options |-> options]]

Built(ok, s, x, e, cs, ms) ==
    [ok |-> ok, self |-> s, value |-> x, error |-> e, calls |-> cs, merged |-> ms]

\* Faulty variant: the options are applied before the schema is attached.
reader_options_first(s, failAt) ==
    LET source == Str(<<"cloudFiles">>)
        r1 == Request(source, None, None)
        c1 == Call("format", source, failAt = "format", r1)
        hasSchema == s.schema.type # "NoneType"
        go == get_options(s)
        r2 == Request(source, None, go.value)
        c2 == Call("options", go.value, failAt = "options", r2)
        r3 == Request(source, s.schema, go.value)
        c3 == IF hasSchema
              THEN <<Call("schema", s.schema, failAt = "schema", r3)>> ELSE <<>>
    IN  IF failAt = "format" THEN Built(FALSE, s, None, EngineError, <<c1>>, <<>>)
        ELSE IF ~go.ok THEN Built(FALSE, s, None, go.error, <<c1>>, <<>>)
        ELSE IF failAt = "options"
        THEN Built(FALSE, go.self, None, EngineError, <<c1, c2>>, <<go.value>>)
        ELSE IF hasSchema /\ failAt = "schema"
        THEN Built(FALSE, go.self, None, EngineError, <<c1, c2>> \o c3, <<go.value>>)
        ELSE Built(TRUE, go.self, r3, NoError, <<c1, c2>> \o c3, <<go.value>>)

\* AutoLoader.reader
reader(s, failAt) ==
    LET source == Str(<<"cloudFiles">>)
        r1 == Request(source, None, None)
        c1 == Call("format", source, failAt = "format", r1)
        hasSchema == s.schema.type # "NoneType"
        r2 == Request(source, s.schema, None)
        c2 == IF hasSchema
              THEN <<Call("schema", s.schema, failAt = "schema", r2)>> ELSE <<>>
        go == get_options(s)
        r3 == Request(source, s.schema, go.value)
        c3 == Call("options", go.value, failAt = "options", r3)
    IN  IF failAt = "format" THEN Built(FALSE, s, None, EngineError, <<c1>>, <<>>)
        ELSE IF hasSchema /\ failAt = "schema"
        THEN Built(FALSE, s, None, EngineError, <<c1>> \o c2, <<>>)
        ELSE IF ~go.ok THEN Built(FALSE, s, None, go.error, <<c1>> \o c2, <<>>)
        ELSE IF failAt = "options"
        THEN Built(FALSE, go.self, None, EngineError, <<c1>> \o c2 \o <<c3>>, <<go.value>>)
        ELSE Built(TRUE, go.self, r3, NoError, <<c1>> \o c2 \o <<c3>>, <<go.value>>)

Executed(ok, s, out, e, cs, ms) ==
    [ok |-> ok, self |-> s, output |-> out, error |-> e, calls |-> cs, merged |-> ms]

\* the handle the engine's load returns for its id-th load request
Handle(request, location, id) ==
    DataFrame([request |-> request.v, location |-> location, id |-> id])

\* Faulty variant: a failed load is tried once more.
execute_retry(s, out, failAt, id) ==
    LET r == reader(s, failAt)
        df == Handle(r.value, s.location, id)
        c4 == Call("load", s.location, failAt = "load", df)
    IN  IF ~r.ok THEN Executed(FALSE, r.self, out, r.error, r.calls, r.merged)
        ELSE IF failAt = "load"
        THEN Executed(FALSE, r.self, out, EngineError, r.calls \o <<c4, c4>>, r.merged)
        ELSE Executed(TRUE, r.self, [out EXCEPT !.df = df], NoError,
                      r.calls \o <<c4>>, r.merged)

\* Faulty variant: output.df is cleared before the read is attempted.
execute_clear_first(s, out, failAt, id) ==
    LET r == reader(s, failAt)
        df == Handle(r.value, s.location, id)
        c4 == Call("load", s.location, failAt = "load", df)
        cleared == [out EXCEPT !.df = None]
    IN  IF ~r.ok THEN Executed(FALSE, r.self, cleared, r.error, r.calls, r.merged)
        ELSE IF failAt = "load"
        THEN Executed(FALSE, r.self, cleared, EngineError, r.calls \o <<c4>>, r.merged)
        ELSE Executed(TRUE, r.self, [out EXCEPT !.df = df], NoError,
                      r.calls \o <<c4>>, r.merged)

\* AutoLoader.execute
execute(s, out, failAt, id) ==
    LET r == reader(s, failAt)
        df == Handle(r.value, s.location, id)
        c4 == Call("load", s.location, failAt = "load", df)
    IN  IF ~r.ok THEN Executed(FALSE, r.self, out, r.error, r.calls, r.merged)
        ELSE IF failAt = "load"
        THEN Executed(FALSE, r.self, out, EngineError, r.calls \o <<c4>>, r.merged)
        ELSE Executed(TRUE, r.self, [out EXCEPT !.df = df], NoError,
                      r.calls \o <<c4>>, r.merged)

-----------------------------------------------------------------------------
\* Inputs

Location == Str(<<"s3://bucket/in">>)
SchemaLocation == Str(<<"s3://bucket/schema">>)

CloudFilesFormat == "cloudFiles.format"
CloudFilesSchemaLocation == "cloudFiles.schemaLocation"

\* every letter-case variant of the i-th format name
CaseVariants(i) ==
    LET m == AutoLoaderFormat[i]
    IN  { [k \in 1..Len(m.name) |-> IF b[k] THEN m.name[k] ELSE m.value[k]] :
              b \in [1..Len(m.name) -> BOOLEAN] }

\* strings that match none of the names
Unmatched == { <<"x","m","l">>, <<>>, <<"j","s","n">>, <<"j","s","o","n"," ">>,
               <<" ","c","s","v">>, <<"j","s","o","n","l">>, <<"d","e","l","t","a">> }

AllFormats ==
    { Str(s) : s \in UNION { CaseVariants(i) : i \in DOMAIN AutoLoaderFormat } }
    \cup { Member(i) : i \in DOMAIN AutoLoaderFormat }
    \cup { Str(s) : s \in Unmatched }

SomeFormats ==
    { Str(<<"C","S","V">>), Str(<<"J","s","o","n">>), Member(1), Str(<<"x","m","l">>) }

\* caller-supplied options: values a caller may put under each key
CallerValues(k) ==
    IF k = CloudFilesFormat THEN { <<"x","m","l">>, <<"c","s","v">> }
    ELSE IF k = CloudFilesSchemaLocation THEN { <<"s3://other/schema">> }
    ELSE { <<"t","r","u","e">> }

OptionKeys == { "multiLine", CloudFilesFormat, CloudFilesSchemaLocation }

Mappings ==
    UNION { { m \in [D -> UNION { CallerValues(k) : k \in D }] :
                \A k \in D : m[k] \in CallerValues(k) } : D \in SUBSET OptionKeys }

OptionInputs == { Omitted, None } \cup { Dict(m) : m \in Mappings }

PathChars == { "a", "/" }
PathStrings == UNION { [1..n -> PathChars] : n \in 0..MaxPathLen }

SchemaInputs ==
    { None, StructType(<<>>), PosixPath(<<"a">>) } \cup { Str(p) : p \in PathStrings }

NoText == [json |-> FALSE, obj |-> <<>>]
Texts == { [json |-> TRUE, obj |-> [fields |-> <<>>, type |-> "struct"]],
           [json |-> TRUE, obj |-> <<>>],
           NoText }

Dirs == [p \in { <<".">>, <<"/">>, <<"/", "/">> } |-> [kind |-> "dir", text |-> NoText]]
Filesystems ==
    { Dirs } \cup { (<<"a">> :> [kind |-> "file", text |-> t]) @@ Dirs : t \in Texts }

-----------------------------------------------------------------------------
\* State machine

NoInstance == [format |-> None, location |-> None, schema_location |-> None,
               options |-> None, schema |-> None]

Fresh ==
    /\ pc = "new"
    /\ self = NoInstance
    /\ output = [df |-> None]
    /\ last = ""
    /\ raised = NoError
    /\ ret = None
    /\ nOps = 0
    /\ fsLog = <<>>
    /\ calls = <<>>
    /\ merged = <<>>

Init ==
    /\ args \in [format : SomeFormats, location : {Location},
                 schema_location : {SchemaLocation},
                 options : OptionInputs, schema : SchemaInputs]
    /\ fs \in Filesystems
    /\ Fresh

InitFormat ==
    /\ args \in [format : AllFormats, location : {Location},
                 schema_location : {SchemaLocation},
                 options : { Omitted, Dict("multiLine" :> <<"t","r","u","e">>) },
                 schema : { None }]
    /\ fs = Dirs
    /\ Fresh

\* AutoLoader(**args): the field validators run in field order, format first
Construct ==
    /\ pc = "new"
    /\ LET f == validate_format(args.format)
           sc == validate_schema(args.schema, fs)
       IN  IF ~f.ok
           THEN /\ pc' = "failed" /\ raised' = f.error
                /\ UNCHANGED <<self, fsLog>>
           ELSE IF ~sc.ok
           THEN /\ pc' = "failed" /\ raised' = sc.error
                /\ fsLog' = fsLog \o sc.fsops
                /\ UNCHANGED self
           ELSE /\ pc' = "constructed" /\ raised' = NoError
                /\ fsLog' = fsLog \o sc.fsops
                /\ self' = [format |-> f.value,
                            location |-> args.location,
                            schema_location |-> args.schema_location,
                            options |-> IF args.options.type = "omitted"
                                        THEN Dict(<<>>) ELSE args.options,
                            schema |-> sc.value]
    /\ last' = "__init__"
    /\ UNCHANGED <<args, fs, output, ret, nOps, calls, merged>>

Logged(cs, n) ==
    [i \in 1..Len(cs) |-> [op |-> n, call |-> cs[i].call, arg |-> cs[i].arg,
                           raised |-> cs[i].raised, result |-> cs[i].result]]

GetOptions ==
    /\ pc = "constructed"
    /\ nOps < MaxOps
    /\ LET go == get_options(self)
       IN  /\ self' = go.self
           /\ ret' = go.value
           /\ raised' = go.error
           /\ merged' = IF go.ok THEN Append(merged, go.value) ELSE merged
    /\ last' = "get_options"
    /\ nOps' = nOps + 1
    /\ UNCHANGED <<args, fs, pc, output, fsLog, calls>>

Reader ==
    /\ pc = "constructed"
    /\ nOps < MaxOps
    /\ \E failAt \in FailPoints \ {"load"} :
        LET r == reader(self, failAt)
        IN  /\ self' = r.self
            /\ ret' = r.value
            /\ raised' = r.error
            /\ calls' = calls \o Logged(r.calls, nOps + 1)
            /\ merged' = merged \o r.merged
    /\ last' = "reader"
    /\ nOps' = nOps + 1
    /\ UNCHANGED <<args, fs, pc, output, fsLog>>

Execute ==
    /\ pc = "constructed"
    /\ nOps < MaxOps
    /\ \E failAt \in FailPoints :
        LET x == execute(self, output, failAt, nOps + 1)
        IN  /\ self' = x.self
            /\ output' = x.output
            /\ raised' = x.error
            /\ calls' = calls \o Logged(x.calls, nOps + 1)
            /\ merged' = merged \o x.merged
    /\ ret' = None
    /\ last' = "execute"
    /\ nOps' = nOps + 1
    /\ UNCHANGED <<args, fs, pc, fsLog>>

Next == Construct \/ GetOptions \/ Reader \/ Execute

Spec == Init /\ [][Next]_vars
SpecFormat == InitFormat /\ [][Next]_vars

-----------------------------------------------------------------------------
\* Vocabulary of the properties

\* the seven supported names, as the documentation lists them
SupportedNames ==
    { <<"j","s","o","n">>, <<"c","s","v">>, <<"p","a","r","q","u","e","t">>,
      <<"a","v","r","o">>, <<"o","r","c">>, <<"t","e","x","t">>,
      <<"b","i","n","a","r","y","f","i","l","e">> }

SameLetter(a, b) ==
    a = b \/ \E j \in DOMAIN LowerChars : {a, b} = {LowerChars[j], UpperChars[j]}

\* s spells t up to letter case
SameIgnoringCase(s, t) ==
    Len(s) = Len(t) /\ \A k \in 1..Len(s) : SameLetter(s[k], t[k])

\* the given format denotes the supported name n
Denotes(f, n) ==
    \/ f.type = "str" /\ SameIgnoringCase(f.v, n)
    \/ f.type = "AutoLoaderFormat" /\ SameIgnoringCase(f.v.name, n)

FormatSupported == \E n \in SupportedNames : Denotes(args.format, n)
FormatUnrecognised == args.format.type = "str" /\ ~FormatSupported

SchemaIsPath == args.schema.type \in {"str", "PosixPath"}
SchemaFileMissing == SchemaIsPath /\ Path(args.schema).v \notin DOMAIN fs
SchemaFileMalformed ==
    /\ SchemaIsPath
    /\ Path(args.schema).v \in DOMAIN fs
    /\ fs[Path(args.schema).v].kind = "file"
    /\ ~fs[Path(args.schema).v].text.json

CallerOptions == IF args.options.type = "dict" THEN args.options.v ELSE <<>>
Mandatory == { CloudFilesFormat, CloudFilesSchemaLocation }

\* the engine calls of the n-th method call
OpCalls(n) == SelectSeq(calls, LAMBDA c : c.op = n)
Loads(cs) == { i \in DOMAIN cs : cs[i].call = "load" }
Configured == pc = "constructed" /\ output.df = None
IsExecuted == pc = "constructed" /\ output.df # None

-----------------------------------------------------------------------------
\* C1: every mapping get_options() returns has cloudFiles.format equal to the
\* validated format and cloudFiles.schemaLocation equal to the configured
\* schema_location, whatever the caller put under those keys or if options
\* were omitted.
C1_MandatoryKeysOverride ==
    /\ \A i \in DOMAIN merged :
        /\ merged[i].v[CloudFilesFormat] = self.format.v
        /\ merged[i].v[CloudFilesSchemaLocation] = args.schema_location.v
        /\ \E n \in SupportedNames : Denotes(args.format, n) /\ self.format.v = n
    /\ (last = "get_options" /\ raised = NoError) =>
        /\ ret.v[CloudFilesFormat] = self.format.v
        /\ ret.v[CloudFilesSchemaLocation] = args.schema_location.v

C1_Witness ==
    /\ last = "get_options" /\ raised = NoError
    /\ args.options.type = "dict"
    /\ Mandatory \subseteq DOMAIN args.options.v
    /\ args.options.v[CloudFilesFormat] # ret.v[CloudFilesFormat]
    /\ args.options.v[CloudFilesSchemaLocation] # ret.v[CloudFilesSchemaLocation]

\* C2: a supported name in any letter case, and the enum member of that name,
\* validate to the same canonical lowercase string.
C2_CanonicalLowercase ==
    \A n \in SupportedNames :
        (Denotes(args.format, n) /\ pc # "new") =>
            /\ pc = "constructed" => self.format = Str(n)
            \* a construction that fails has failed in the schema validator
            /\ pc = "failed" => fsLog # <<>>

C2_Witness ==
    /\ pc = "constructed"
    /\ args.format = Str(<<"J","s","o","n">>)
    /\ self.format = Str(<<"j","s","o","n">>)

C4_MissingSchemaFile ==
    (SchemaFileMissing /\ FormatSupported /\ pc # "new") =>
        /\ pc = "failed"
        /\ self = NoInstance
        /\ raised = Error("FileNotFoundError",
                          <<"Schema file not found at path ">> \o args.schema.v)
        /\ \A i \in DOMAIN fsLog : fsLog[i].op # "read_text"

C4_Witness ==
    /\ pc = "failed"
    /\ args.schema = Str(<<"a", "/">>)
    /\ raised.type = "FileNotFoundError"
    /\ fsLog # <<>>

\* C5: the engine calls of an execute() are, in this order, format("cloudFiles"),
\* schema(resolved schema) iff a schema was resolved, options(merged options)
\* once, load(location) once; the handle load returns is stored in output.df.
C5_EngineCallOrder ==
    last = "execute" =>
        LET cs == OpCalls(nOps)
            expected == <<"format">>
                        \o (IF self.schema.type # "NoneType" THEN <<"schema">> ELSE <<>>)
                        \o <<"options", "load">>
        IN  /\ Len(cs) <= Len(expected)
            /\ \A i \in DOMAIN cs :
                /\ cs[i].call = expected[i]
                /\ cs[i].call = "format" => cs[i].arg = Str(<<"cloudFiles">>)
                /\ cs[i].call = "schema" => cs[i].arg = self.schema
                /\ cs[i].call = "options" => cs[i].arg = self.options
                /\ cs[i].call = "load" => cs[i].arg = args.location
                /\ cs[i].raised => i = Len(cs)
            /\ raised = NoError =>
                /\ Len(cs) = Len(expected)
                /\ ~cs[Len(cs)].raised
                /\ output.df = cs[Len(cs)].result

C5_Witness ==
    /\ last = "execute" /\ raised = NoError
    /\ args.schema.type = "str"
    /\ self.schema.type = "StructType"
    /\ Len(OpCalls(nOps)) = 4

\* C6: the merge changes nothing but the two mandatory keys: the returned
\* mapping has exactly the caller's keys plus the two, and every other caller
\* key keeps its value.
C6_MergeFrame ==
    \A i \in DOMAIN merged :
        /\ DOMAIN merged[i].v = DOMAIN CallerOptions \cup Mandatory
        /\ \A k \in DOMAIN CallerOptions \ Mandatory : merged[i].v[k] = CallerOptions[k]

C6_Witness ==
    /\ last = "get_options"
    /\ args.format = Str(<<"C","S","V">>)
    /\ args.options = Dict("multiLine" :> <<"t","r","u","e">>)
    /\ ret = Dict(("multiLine" :> <<"t","r","u","e">>)
                  @@ (CloudFilesFormat :> <<"c","s","v">>)
                  @@ (CloudFilesSchemaLocation :> <<"s3://bucket/schema">>))

\* C7: with schema None nothing on the filesystem is accessed, the resolved
\* schema is None, and no schema is attached to any reader request.
C7_NoSchemaNoFilesystem ==
    args.schema = None =>
        /\ fsLog = <<>>
        /\ pc = "constructed" => self.schema = None
        /\ \A i \in DOMAIN calls : calls[i].call # "schema"

C7_Witness ==
    /\ args.schema = None
    /\ last = "execute" /\ raised = NoError
    /\ output.df # None

\* C8: a failed validation produces no instance and no engine call; a failed
\* load propagates, is not retried and leaves output.df unassigned.
C8_FailFast ==
    /\ []((pc # "new" /\ (FormatUnrecognised \/ SchemaFileMissing \/ SchemaFileMalformed))
            => pc = "failed")
    /\ [](pc = "failed" =>
            /\ raised # NoError
            /\ self = NoInstance
            /\ calls = <<>>
            /\ output.df = None)
    /\ [][(last' = "execute" /\ nOps' = nOps + 1
            /\ \E i \in DOMAIN calls' :
                 calls'[i].op = nOps' /\ calls'[i].call = "load" /\ calls'[i].raised)
          => /\ raised' = EngineError
             /\ Cardinality(Loads(OpCalls(nOps)')) = 1
             /\ output' = output]_vars

C8_Witness ==
    /\ last = "execute" /\ raised = EngineError
    /\ Loads(OpCalls(nOps)) # {}
    /\ calls[Len(calls)].raised
    /\ output.df # None

\* C9 as stated: over any sequence of operations on one instance the load
\* call is issued at most once.
C9_LoadAtMostOnce ==
    /\ (pc = "constructed" /\ nOps = 0) => Configured
    /\ Cardinality(Loads(calls)) <= 1

\* C9 amended: an instance is Configured after construction, becomes Executed
\* only by an execute() whose load returned a handle, never goes back to
\* Configured, and each execute() issues load at most once; a repeated
\* execute() issues load again.
C9_Lifecycle ==
    /\ []((pc = "constructed" /\ nOps = 0) => Configured)
    /\ [](\A n \in 1..nOps : Cardinality(Loads(OpCalls(n))) <= 1)
    /\ [](IsExecuted =>
            \E i \in Loads(calls) : ~calls[i].raised /\ calls[i].result = output.df)
    /\ [][IsExecuted => IsExecuted']_vars
    /\ [][output' # output =>
            /\ last' = "execute" /\ raised' = NoError
            /\ calls'[Len(calls')].call = "load"
            /\ calls'[Len(calls')].op = nOps'
            /\ output'.df = calls'[Len(calls')].result]_vars

C9_Witness ==
    /\ IsExecuted
    /\ Cardinality(Loads(calls)) = 2
    /\ \A i \in Loads(calls) : ~calls[i].raised

\* C10: get_options() merges in place and is idempotent: what it returns is
\* the instance's own options, which from then on hold the two mandatory
\* keys, and every later get_options(), reader() or execute() yields an equal
\* mapping.
C10_InPlaceIdempotent ==
    merged # <<>> =>
        /\ self.options = merged[Len(merged)]
        /\ Mandatory \subseteq DOMAIN self.options.v
        /\ \A i \in DOMAIN merged : merged[i] = merged[1]
        /\ \A i \in DOMAIN calls :
               calls[i].call = "options" => calls[i].arg = merged[1]

C10_Witness ==
    /\ Len(merged) = 2
    /\ args.options = Omitted
    /\ last = "execute" /\ raised = NoError

====
